---- MODULE Spec2Model ----
(***************************************************************************)
(* Model of the mango envelope-budget application: the App component's     *)
(* ledger state (yearData), its selection and modal state, the mutation    *)
(* handlers, the local snapshot store and the cloud pull/push.             *)
(*                                                                         *)
(* A Year's months array is held as the map from the indexes of the months  *)
(* that differ from the default month to those months; Month(y, i) reads    *)
(* entry i of the array, a default month where the map has no entry.        *)
(*                                                                         *)
(* A Transaction is modelled by its type and amount; its id, date and      *)
(* description are written by the handlers and read by none of them.       *)
(* The text of an insight is modelled by the request that produced it, a    *)
(* string of localStorage by what JSON.parse makes of it.                   *)
(* Math.random ids are modelled as fresh: different from every id that     *)
(* occurs anywhere in the state.                                           *)
(***************************************************************************)
EXTENDS Integers, Sequences, FiniteSets, TLC

VARIABLES
    yearData,            \* useState<BudgetYear>
    activeView,          \* 'YEARLY' | 'DETAIL' | 'REPORT'
    selectedMonthIndex,  \* 0..11
    selectedCategory,    \* id of the selected Category object, NoId for null
    modal,               \* which is*ModalOpen flag is true, "NONE" if none
    transferForm,        \* [fromCategoryId], the amount is typed before submit
    session,             \* TRUE when a session object is held
    localStore,          \* localStorage: year -> the string stored under the year's key, or NoYear
    budgets,             \* the budgets table: name -> the data of the name's row, or NoYear
    user,                \* session.user: the name of the session held or last held, or NoUser
    pulls,               \* handlePostLoginSync calls awaiting their answer
    pushTimer,           \* payload of the pending setTimeout, or NoYear
    insights,            \* useState<string | null>: the request whose text is held, or NoInsight
    loadingInsights,     \* useState(false)
    insightRequests,     \* getBudgetInsights calls awaiting their answer
    fetches,             \* fetchInsights calls made so far
    lastOp,              \* the handler that ran last, whether it got past its guards, its arguments
    steps                \* events handled so far

vars == <<yearData, activeView, selectedMonthIndex, selectedCategory, modal,
          transferForm, session, localStore, budgets, user, pulls, pushTimer,
          insights, loadingInsights, insightRequests, fetches, lastOp, steps>>

----
\* Bounds of the model.

\* categories a month may hold before "New envelope" / setup entries are cut off
MaxCategories == 2
\* the months the user works on are the last MonthsUsed ones of the year
MonthsUsed == 2
\* the years the user visits are ThisYear .. ThisYear + YearsAhead
YearsAhead == 1
\* handlePostLoginSync calls that may be in flight together
MaxPulls == 1
\* events (clicks, answers from the backend, timeouts) of one run
MaxSteps == 8
\* categories of the month the reordering is checked on
ReorderCategories == 4
\* fetchInsights calls of one run
MaxFetches == 2

\* Program constants.
NumMonths == 12
LastMonthIndex == 11
ThisYear == 2026

MonthIndexes == 0 .. (NumMonths - 1)
UsedMonths == (NumMonths - MonthsUsed) .. (NumMonths - 1)
Years == ThisYear .. (ThisYear + YearsAhead)

----
\* Values.

NaN == -999
NoId == 0
NoNote == "undefined"
NoYear == [year |-> -1]
JsonNull == -998
NoInsight == [n |-> 0]

\* the names people register under; the runs of one user are those of FirstUser
Users == {"Alex", "Blake"}
FirstUser == "Alex"
NoUser == ""

AmountStrings == {"", "-1", "0", "1"}
NameStrings == {"", " ", " Food"}
NoteStrings == {" Salary"}

\* parseFloat on the strings a number field can hold
parseFloat(s) ==
    CASE s = "-1" -> -1
      [] s = "0" -> 0
      [] s = "1" -> 1
      [] OTHER -> NaN

\* String.prototype.trim
trim(s) ==
    CASE s = " " -> ""
      [] s = " Food" -> "Food"
      [] s = " Salary" -> "Salary"
      [] OTHER -> s

\* x || 0 on a number: NaN and 0 are falsy
OrZero(x) == IF x = NaN \/ x = 0 THEN 0 ELSE x

\* a + b, a - b, a > b on numbers, NaN propagating
Plus(a, b) == IF a = NaN \/ b = NaN THEN NaN ELSE a + b
Minus(a, b) == IF a = NaN \/ b = NaN THEN NaN ELSE a - b
Greater(a, b) == a # NaN /\ b # NaN /\ a > b

RECURSIVE SumSeq(_)
SumSeq(s) == IF s = <<>> THEN 0 ELSE Plus(Head(s), SumSeq(Tail(s)))

----
\* The ledger.

DefaultMonth(y, i) ==
    [monthIndex |-> i, year |-> y, status |-> "NOT_STARTED", totalBudget |-> 0,
     note |-> NoNote, categories |-> <<>>]

\* the Year loadLocalYearData returns when nothing usable is stored
DefaultYear(y) == [year |-> y, months |-> [i \in {} |-> DefaultMonth(y, i)]]

\* y.months[i]
Month(y, i) == IF i \in DOMAIN y.months THEN y.months[i] ELSE DefaultMonth(y.year, i)

\* a value with the shape of a BudgetYear
IsYear(v) == DOMAIN v = {"year", "months"}

\* a string of localStorage: one that JSON.parse turns into value, the empty
\* string, or text that JSON.parse throws on
StoredJson(v) == [string |-> "json", value |-> v]
EmptyString == [string |-> "", value |-> NoYear]
Unparseable == [string |-> "{year:", value |-> NoYear]

\* JSON.stringify writes a NaN as null, and leaves an undefined note out
JsonNumber(x) == IF x = NaN THEN JsonNull ELSE x

JsonTransactions(txs) ==
    [t \in 1 .. Len(txs) |-> [txs[t] EXCEPT !.amount = JsonNumber(txs[t].amount)]]

JsonCategories(cs) ==
    [k \in 1 .. Len(cs) |->
        [cs[k] EXCEPT !.allocatedAmount = JsonNumber(cs[k].allocatedAmount),
                      !.transactions = JsonTransactions(cs[k].transactions)]]

JsonMonth(m) ==
    [m EXCEPT !.totalBudget = JsonNumber(m.totalBudget),
              !.categories = JsonCategories(m.categories)]

JSONstringify(data) ==
    StoredJson([year |-> data.year,
                months |-> [i \in DOMAIN data.months |-> JsonMonth(data.months[i])]])

\* localStorage.setItem under the key of data.year
saveLocalYearData(data) == [localStore EXCEPT ![data.year] = JSONstringify(data)]

\* JSON.parse of the stored string when there is one and it is not empty, the
\* default Year when there is none or the parse throws
ParsedOrDefault(stored, y) ==
    IF stored # NoYear /\ stored.string # "" /\ stored.string = "json"
    THEN stored.value
    ELSE DefaultYear(y)

\* getItem under the key of year y, then the above
loadLocalYearData(y) == ParsedOrDefault(localStore[y], y)

currentMonth == Month(yearData, selectedMonthIndex)

\* the data of the session user's row of the budgets table, or NoYear
cloud == IF user = NoUser THEN NoYear ELSE budgets[user]

Allocations(m) == [k \in 1 .. Len(m.categories) |-> m.categories[k].allocatedAmount]
Amounts(txs) == [k \in 1 .. Len(txs) |-> txs[k].amount]
IsExpense(t) == t.type = "EXPENSE"

\* getCategorySpent summing the transactions of every type
getCategorySpent_CountsAll(cat) == SumSeq(Amounts(cat.transactions))

\* filter(t => t.type === 'EXPENSE').reduce((sum, t) => sum + t.amount, 0)
getCategorySpent(cat) == SumSeq(Amounts(SelectSeq(cat.transactions, IsExpense)))

\* the reduce over the categories, with the filter and the inner reduce written out
getTotalSpent(m) ==
    SumSeq([k \in 1 .. Len(m.categories) |->
              SumSeq(Amounts(SelectSeq(m.categories[k].transactions, IsExpense)))])

\* the remaining figure of a category card
remaining(cat) == Minus(cat.allocatedAmount, getCategorySpent(cat))

CategoryIds(m) == {m.categories[k].id : k \in 1 .. Len(m.categories)}

\* Array.prototype.find by id: the first match, or NoId's empty record
HasCategory(m, id) == \E k \in 1 .. Len(m.categories) : m.categories[k].id = id
FindCategory(m, id) ==
    m.categories[CHOOSE k \in 1 .. Len(m.categories) :
        /\ m.categories[k].id = id
        /\ \A j \in 1 .. (k - 1) : m.categories[j].id # id]

YearIds(y) ==
    IF ~IsYear(y) THEN {}
    ELSE UNION {CategoryIds(y.months[i]) : i \in DOMAIN y.months}

\* every id that occurs in the state
UsedIds ==
    YearIds(yearData) \cup YearIds(pushTimer)
      \cup UNION {YearIds(budgets[u]) : u \in Users}
      \cup UNION {YearIds(localStore[y].value) : y \in {z \in Years : localStore[z] # NoYear}}
      \cup {selectedCategory, transferForm.fromCategoryId, NoId}

\* Math.random().toString(36).substr(2, 9), n times: n fresh ids
RECURSIVE FreshFrom(_, _)
FreshFrom(n, used) ==
    IF n = 0 THEN <<>>
    ELSE LET id == CHOOSE i \in 1 .. (Cardinality(used) + 1) :
                       i \notin used /\ \A j \in 1 .. (i - 1) : j \in used
         IN  <<id>> \o FreshFrom(n - 1, used \cup {id})
FreshIds(n) == FreshFrom(n, UsedIds)

\* a month that may take one more category
InBounds(m) == Len(m.categories) < MaxCategories

----
\* React state updates and the effect that follows them.

\* the Year the handlePostLoginSync closure of the first render holds
MountYearData == DefaultYear(ThisYear)

\* the effect without its cleanup and its yearData dependency: a pending
\* timeout is left to fire with the Year it was set for
AfterRender_KeepsPending(nd, s) ==
    IF s
    THEN /\ localStore' = saveLocalYearData(nd)
         /\ pushTimer' = IF pushTimer # NoYear THEN pushTimer ELSE nd
    ELSE /\ localStore' = localStore
         /\ pushTimer' = NoYear

\* useEffect on [yearData, performSync, session]: with a session, save the Year
\* locally and (re)schedule the debounced push of it
AfterRender(nd, s) ==
    IF s
    THEN /\ localStore' = saveLocalYearData(nd)
         /\ pushTimer' = nd
    ELSE /\ localStore' = localStore
         /\ pushTimer' = NoYear

\* setYearData(nd) with no effect run after the render
setYearData_WithoutEffect(nd) ==
    /\ yearData' = nd
    /\ UNCHANGED <<localStore, pushTimer>>

\* setYearData(nd) and the render after it
setYearData(nd) ==
    /\ yearData' = nd
    /\ AfterRender(nd, session)

\* updateMonth starting from a fresh months array instead of a copy
ReplaceMonth_DropsOthers(y, idx, updatedMonth) ==
    LET months(i) == IF i = idx THEN updatedMonth ELSE DefaultMonth(y.year, i)
        changed == {i \in MonthIndexes : months(i) # DefaultMonth(y.year, i)}
    IN  [year |-> y.year, months |-> [i \in changed |-> months(i)]]

\* updateMonth: replace the month at selectedMonthIndex
ReplaceMonth(y, idx, updatedMonth) ==
    LET months(i) == IF i = idx THEN updatedMonth ELSE Month(y, i)
        changed == {i \in MonthIndexes : months(i) # DefaultMonth(y.year, i)}
    IN  [year |-> y.year, months |-> [i \in changed |-> months(i)]]

updateMonth(updatedMonth) ==
    setYearData(ReplaceMonth(yearData, selectedMonthIndex, updatedMonth))

\* a handler ran, and whether it got past its guards; a run handles at most
\* MaxSteps events
RanOn(op, done, field, id) ==
    /\ steps < MaxSteps
    /\ steps' = steps + 1
    /\ lastOp' = [op |-> op, done |-> done, field |-> field, id |-> id]

\* a handler whose argument is a form field
RanWith(op, done, field) == RanOn(op, done, field, NoId)

Ran(op, done) == RanWith(op, done, "")

\* a click that only navigates
Navigated == Ran("nav", TRUE)

\* the main screen is rendered with a session; an open Modal covers it
MainScreen == session /\ modal = "NONE"

UNCHANGED_LEDGER == UNCHANGED <<yearData, localStore, pushTimer>>
UNCHANGED_SYNC == UNCHANGED <<session, budgets, user, pulls>>
UNCHANGED_INSIGHTS == UNCHANGED <<insights, loadingInsights, insightRequests, fetches>>

\* fetchInsights(month) up to its await: the request for the month's summary
\* is on its way
fetchInsights(month) ==
    /\ fetches < MaxFetches
    /\ fetches' = fetches + 1
    /\ loadingInsights' = TRUE
    /\ insightRequests' = insightRequests \cup
            {[n |-> fetches + 1, year |-> month.year, monthIndex |-> month.monthIndex]}
    /\ insights' = insights

----
\* Navigation.

\* a month card of the YEARLY view
ClickMonth(idx) ==
    /\ MainScreen /\ activeView = "YEARLY"
    /\ selectedMonthIndex' = idx
    /\ IF Month(yearData, idx).status # "NOT_STARTED"
       THEN activeView' = "DETAIL" /\ modal' = modal
       ELSE activeView' = activeView /\ modal' = "SETUP"
    /\ Navigated
    /\ UNCHANGED <<selectedCategory, transferForm>>
    /\ UNCHANGED_LEDGER /\ UNCHANGED_SYNC
    /\ UNCHANGED_INSIGHTS

\* "Back", the title and the "Months" tab
NavYearly ==
    /\ MainScreen /\ activeView # "YEARLY"
    /\ activeView' = "YEARLY"
    /\ Navigated
    /\ UNCHANGED <<selectedMonthIndex, selectedCategory, modal, transferForm>>
    /\ UNCHANGED_LEDGER /\ UNCHANGED_SYNC
    /\ UNCHANGED_INSIGHTS

\* the "Planning" tab
NavPlanning ==
    /\ MainScreen
    /\ IF currentMonth.status # "NOT_STARTED"
       THEN activeView' = "DETAIL" /\ modal' = modal
       ELSE activeView' = activeView /\ modal' = "SETUP"
    /\ Navigated
    /\ UNCHANGED <<selectedMonthIndex, selectedCategory, transferForm>>
    /\ UNCHANGED_LEDGER /\ UNCHANGED_SYNC
    /\ UNCHANGED_INSIGHTS

\* the "Report" tab, and "Generate report" of the DETAIL view
NavReport ==
    /\ MainScreen
    /\ currentMonth.status # "NOT_STARTED" \/ activeView = "DETAIL"
    /\ activeView' = "REPORT"
    /\ fetchInsights(currentMonth)
    /\ Navigated
    /\ UNCHANGED <<selectedMonthIndex, selectedCategory, modal, transferForm>>
    /\ UNCHANGED_LEDGER /\ UNCHANGED_SYNC

\* a Modal's "Close"
CloseModal ==
    /\ session /\ modal # "NONE"
    /\ modal' = "NONE"
    /\ Navigated
    /\ UNCHANGED <<activeView, selectedMonthIndex, selectedCategory, transferForm>>
    /\ UNCHANGED_LEDGER /\ UNCHANGED_SYNC
    /\ UNCHANGED_INSIGHTS

\* the buttons of a category card: History, Expense, Transfer, Add on
OpenCategoryModal(k, which) ==
    /\ MainScreen /\ activeView = "DETAIL"
    /\ k \in 1 .. Len(currentMonth.categories)
    /\ selectedCategory' = currentMonth.categories[k].id
    /\ modal' = which
    /\ Navigated
    /\ UNCHANGED <<activeView, selectedMonthIndex, transferForm>>
    /\ UNCHANGED_LEDGER /\ UNCHANGED_SYNC
    /\ UNCHANGED_INSIGHTS

\* "Edit" of the month total and "New envelope"
OpenMonthModal(which) ==
    /\ MainScreen /\ activeView = "DETAIL"
    /\ modal' = which
    /\ Navigated
    /\ UNCHANGED <<activeView, selectedMonthIndex, selectedCategory, transferForm>>
    /\ UNCHANGED_LEDGER /\ UNCHANGED_SYNC
    /\ UNCHANGED_INSIGHTS

\* the "Source envelope" select: "" or a category other than the selected one
ChooseSource(id) ==
    /\ session /\ modal = "TRANSFER"
    /\ id = NoId \/ (id \in CategoryIds(currentMonth) /\ id # selectedCategory)
    /\ transferForm' = [fromCategoryId |-> id]
    /\ Navigated
    /\ UNCHANGED <<activeView, selectedMonthIndex, selectedCategory, modal>>
    /\ UNCHANGED_LEDGER /\ UNCHANGED_SYNC
    /\ UNCHANGED_INSIGHTS

----
\* The month each mutation handler hands to updateMonth.

Transaction(type, amount) == [type |-> type, amount |-> amount]

SetupEntryAmount(sc) == OrZero(parseFloat(sc.amount))
ValidSetupEntry(sc) == trim(sc.name) # "" /\ Greater(SetupEntryAmount(sc), 0)

\* useMemo over setupCategories
computedSetupTotal(setupCategories) ==
    SumSeq([k \in 1 .. Len(setupCategories) |-> SetupEntryAmount(setupCategories[k])])

SetupMonth(m, setupCategories, setupNote, ids) ==
    LET validCategories == SelectSeq(setupCategories, ValidSetupEntry)
        newCategories ==
            [k \in 1 .. Len(validCategories) |->
                [id |-> ids[k],
                 name |-> trim(validCategories[k].name),
                 icon |-> trim(validCategories[k].name),
                 allocatedAmount |-> SetupEntryAmount(validCategories[k]),
                 transactions |-> <<>>]]
    IN  [m EXCEPT !.status = "ACTIVE",
                  !.totalBudget = computedSetupTotal(setupCategories),
                  !.note = trim(setupNote),
                  !.categories = newCategories]

AddCategoryMonth(m, newCatName, newCatAmount, id) ==
    LET amount == OrZero(parseFloat(newCatAmount))
        newCat == [id |-> id, name |-> trim(newCatName), icon |-> trim(newCatName),
                   allocatedAmount |-> amount, transactions |-> <<>>]
    IN  [m EXCEPT !.categories = Append(m.categories, newCat),
                  !.totalBudget = Plus(m.totalBudget, amount)]

\* deleteCategory leaving the month total as it was
DeleteCategoryMonth_KeepsTotal(m, id) ==
    [m EXCEPT !.categories = SelectSeq(m.categories, LAMBDA c : c.id # id)]

DeleteCategoryMonth(m, id) ==
    LET cat == FindCategory(m, id)
    IN  [m EXCEPT !.categories = SelectSeq(m.categories, LAMBDA c : c.id # id),
                  !.totalBudget = Minus(m.totalBudget, cat.allocatedAmount)]

\* index of the first category with the id, 0 when there is none (findIndex + 1)
FindIndex(m, id) ==
    IF HasCategory(m, id)
    THEN CHOOSE k \in 1 .. Len(m.categories) :
            /\ m.categories[k].id = id
            /\ \A j \in 1 .. (k - 1) : m.categories[j].id # id
    ELSE 0

\* the removed entry written over the entry at targetIndex
MoveSeq_Overwrites(cs, index, targetIndex) ==
    [cs EXCEPT ![targetIndex] = cs[index]]

\* splice(index, 1) then splice(targetIndex, 0, removed)
MoveSeq(cs, index, targetIndex) ==
    LET removed == cs[index]
        rest == [k \in 1 .. (Len(cs) - 1) |-> IF k < index THEN cs[k] ELSE cs[k + 1]]
    IN  [k \in 1 .. Len(cs) |->
            IF k < targetIndex THEN rest[k]
            ELSE IF k = targetIndex THEN removed
            ELSE rest[k - 1]]

MoveTarget(index, direction) == IF direction = "UP" THEN index - 1 ELSE index + 1

MoveCategoryMonth(m, id, direction) ==
    [m EXCEPT !.categories =
        MoveSeq(m.categories, FindIndex(m, id), MoveTarget(FindIndex(m, id), direction))]

\* addExpense charging the expense to the month total as well
ExpenseMonth_ChargesTotal(m, selectedId, amountField) ==
    LET amount == parseFloat(amountField)
        newTransaction == Transaction("EXPENSE", amount)
    IN  [m EXCEPT !.categories = [k \in 1 .. Len(m.categories) |->
            LET c == m.categories[k] IN
            IF c.id = selectedId
            THEN [c EXCEPT !.transactions = Append(c.transactions, newTransaction)]
            ELSE c],
                  !.totalBudget = Minus(m.totalBudget, amount)]

ExpenseMonth(m, selectedId, amountField) ==
    LET amount == parseFloat(amountField)
        newTransaction == Transaction("EXPENSE", amount)
    IN  [m EXCEPT !.categories = [k \in 1 .. Len(m.categories) |->
            LET c == m.categories[k] IN
            IF c.id = selectedId
            THEN [c EXCEPT !.transactions = Append(c.transactions, newTransaction)]
            ELSE c]]

TopUpMonth(m, selectedId, amountField) ==
    LET amount == parseFloat(amountField)
        inTrans == Transaction("TRANSFER_IN", amount)
    IN  [m EXCEPT !.categories = [k \in 1 .. Len(m.categories) |->
            LET c == m.categories[k] IN
            IF c.id = selectedId
            THEN [c EXCEPT !.allocatedAmount = Plus(c.allocatedAmount, amount),
                           !.transactions = Append(c.transactions, inTrans)]
            ELSE c],
                  !.totalBudget = Plus(m.totalBudget, amount)]

TransferMonth(m, selectedId, fromCategoryId, amountField) ==
    LET amount == parseFloat(amountField)
        fromCat == FindCategory(m, fromCategoryId)
        outTrans == Transaction("TRANSFER_OUT", amount)
        inTrans == Transaction("TRANSFER_IN", amount)
    IN  [m EXCEPT !.categories = [k \in 1 .. Len(m.categories) |->
            LET c == m.categories[k] IN
            IF c.id = fromCat.id
            THEN [c EXCEPT !.allocatedAmount = Minus(c.allocatedAmount, amount),
                           !.transactions = Append(c.transactions, outTrans)]
            ELSE IF c.id = selectedId
            THEN [c EXCEPT !.allocatedAmount = Plus(c.allocatedAmount, amount),
                           !.transactions = Append(c.transactions, inTrans)]
            ELSE c]]

ToggleStatusMonth(m) ==
    [m EXCEPT !.status = IF m.status = "COMPLETED" THEN "ACTIVE" ELSE "COMPLETED"]

EditTotalMonth(m, editTotalValue) ==
    [m EXCEPT !.totalBudget = OrZero(parseFloat(editTotalValue))]

\* handleCopyPlan copying the transactions along with the categories
CopyPlanMonth_KeepsTransactions(cur, nextMonth, ids) ==
    LET copiedCategories ==
            [k \in 1 .. Len(cur.categories) |->
                [cur.categories[k] EXCEPT !.id = ids[k]]]
    IN  [nextMonth EXCEPT !.status = "ACTIVE",
                          !.totalBudget = cur.totalBudget,
                          !.note = cur.note,
                          !.categories = copiedCategories]

CopyPlanMonth(cur, nextMonth, ids) ==
    LET copiedCategories ==
            [k \in 1 .. Len(cur.categories) |->
                [cur.categories[k] EXCEPT !.id = ids[k], !.transactions = <<>>]]
    IN  [nextMonth EXCEPT !.status = "ACTIVE",
                          !.totalBudget = cur.totalBudget,
                          !.note = cur.note,
                          !.categories = copiedCategories]

----
\* The mutation handlers.

SetupEntries == [name : NameStrings, amount : AmountStrings]
SetupLists == UNION {[1 .. n -> SetupEntries] : n \in 0 .. MaxCategories}

\* "Start Planning" of the setup Modal
finalizeSetup(setupCategories, setupNote) ==
    /\ session /\ modal = "SETUP"
    /\ LET validCategories == SelectSeq(setupCategories, ValidSetupEntry)
       IN  IF Len(validCategories) = 0
           THEN /\ Ran("finalizeSetup", FALSE)
                /\ UNCHANGED <<activeView, modal>>
                /\ UNCHANGED_LEDGER
           ELSE /\ updateMonth(SetupMonth(currentMonth, setupCategories, setupNote,
                                          FreshIds(Len(validCategories))))
                /\ modal' = "NONE"
                /\ activeView' = "DETAIL"
                /\ Ran("finalizeSetup", TRUE)
    /\ UNCHANGED <<selectedMonthIndex, selectedCategory, transferForm>>
    /\ UNCHANGED_SYNC
    /\ UNCHANGED_INSIGHTS

\* "Create" of the New Envelope Modal
handleAddNewCategory(newCatName, newCatAmount) ==
    /\ session /\ modal = "ADD_CATEGORY"
    /\ IF trim(newCatName) = ""
       THEN /\ Ran("handleAddNewCategory", FALSE)
            /\ UNCHANGED modal
            /\ UNCHANGED_LEDGER
       ELSE /\ InBounds(currentMonth)
            /\ updateMonth(AddCategoryMonth(currentMonth, newCatName, newCatAmount,
                                            FreshIds(1)[1]))
            /\ modal' = "NONE"
            /\ Ran("handleAddNewCategory", TRUE)
    /\ UNCHANGED <<activeView, selectedMonthIndex, selectedCategory, transferForm>>
    /\ UNCHANGED_SYNC
    /\ UNCHANGED_INSIGHTS

\* "Del" of a category card, with the answer to window.confirm
deleteCategory(id, confirmed) ==
    /\ MainScreen /\ activeView = "DETAIL"
    /\ id \in CategoryIds(currentMonth)
    /\ IF ~confirmed \/ ~HasCategory(currentMonth, id)
       THEN /\ RanOn("deleteCategory", FALSE, IF confirmed THEN "OK" ELSE "Cancel", id)
            /\ UNCHANGED_LEDGER
       ELSE /\ updateMonth(DeleteCategoryMonth(currentMonth, id))
            /\ RanOn("deleteCategory", TRUE, "OK", id)
    /\ UNCHANGED <<activeView, selectedMonthIndex, selectedCategory, modal, transferForm>>
    /\ UNCHANGED_SYNC
    /\ UNCHANGED_INSIGHTS

\* "Up" / "Down" of a category card
moveCategory(id, direction) ==
    /\ MainScreen /\ activeView = "DETAIL"
    /\ id \in CategoryIds(currentMonth)
    /\ LET index == FindIndex(currentMonth, id)
           targetIndex == MoveTarget(index, direction)
       IN  IF index < 1 \/ targetIndex < 1 \/ targetIndex > Len(currentMonth.categories)
           THEN /\ RanOn("moveCategory", FALSE, direction, id)
                /\ UNCHANGED_LEDGER
           ELSE /\ updateMonth(MoveCategoryMonth(currentMonth, id, direction))
                /\ RanOn("moveCategory", TRUE, direction, id)
    /\ UNCHANGED <<activeView, selectedMonthIndex, selectedCategory, modal, transferForm>>
    /\ UNCHANGED_SYNC
    /\ UNCHANGED_INSIGHTS

\* "Save record" of the expense Modal
addExpense(amountField) ==
    /\ session /\ modal = "EXPENSE"
    /\ IF selectedCategory = NoId \/ amountField = ""
       THEN /\ RanWith("addExpense", FALSE, amountField)
            /\ UNCHANGED modal
            /\ UNCHANGED_LEDGER
       ELSE /\ updateMonth(ExpenseMonth(currentMonth, selectedCategory, amountField))
            /\ modal' = "NONE"
            /\ RanWith("addExpense", TRUE, amountField)
    /\ UNCHANGED <<activeView, selectedMonthIndex, selectedCategory, transferForm>>
    /\ UNCHANGED_SYNC
    /\ UNCHANGED_INSIGHTS

\* "Confirm add on" of the top-up Modal
handleTopUp(amountField) ==
    /\ session /\ modal = "TOPUP"
    /\ IF selectedCategory = NoId \/ amountField = ""
       THEN /\ RanWith("handleTopUp", FALSE, amountField)
            /\ UNCHANGED modal
            /\ UNCHANGED_LEDGER
       ELSE /\ updateMonth(TopUpMonth(currentMonth, selectedCategory, amountField))
            /\ modal' = "NONE"
            /\ RanWith("handleTopUp", TRUE, amountField)
    /\ UNCHANGED <<activeView, selectedMonthIndex, selectedCategory, transferForm>>
    /\ UNCHANGED_SYNC
    /\ UNCHANGED_INSIGHTS

\* the guards of handleTransfer
TransferGuard(m, selectedId, fromCategoryId, amountField) ==
    /\ selectedId # NoId
    /\ amountField # ""
    /\ fromCategoryId # NoId
    /\ HasCategory(m, fromCategoryId)

\* "Complete transfer" of the transfer Modal
handleTransfer(amountField) ==
    /\ session /\ modal = "TRANSFER"
    /\ IF ~TransferGuard(currentMonth, selectedCategory, transferForm.fromCategoryId, amountField)
       THEN /\ RanWith("handleTransfer", FALSE, amountField)
            /\ UNCHANGED <<modal, transferForm>>
            /\ UNCHANGED_LEDGER
       ELSE /\ updateMonth(TransferMonth(currentMonth, selectedCategory,
                                         transferForm.fromCategoryId, amountField))
            /\ modal' = "NONE"
            /\ transferForm' = [fromCategoryId |-> NoId]
            /\ RanWith("handleTransfer", TRUE, amountField)
    /\ UNCHANGED <<activeView, selectedMonthIndex, selectedCategory>>
    /\ UNCHANGED_SYNC
    /\ UNCHANGED_INSIGHTS

\* "Finalize" / "Unlock" of the DETAIL view
toggleStatus ==
    /\ MainScreen /\ activeView = "DETAIL"
    /\ updateMonth(ToggleStatusMonth(currentMonth))
    /\ IF ToggleStatusMonth(currentMonth).status = "COMPLETED"
       THEN activeView' = "REPORT" /\ fetchInsights(currentMonth)
       ELSE activeView' = activeView /\ UNCHANGED_INSIGHTS
    /\ Ran("toggleStatus", TRUE)
    /\ UNCHANGED <<selectedMonthIndex, selectedCategory, modal, transferForm>>
    /\ UNCHANGED_SYNC

\* "Save Changes" of the Edit Budget Modal
saveEditTotal(editTotalValue) ==
    /\ session /\ modal = "EDIT_TOTAL"
    /\ updateMonth(EditTotalMonth(currentMonth, editTotalValue))
    /\ modal' = "NONE"
    /\ RanWith("saveEditTotal", TRUE, editTotalValue)
    /\ UNCHANGED <<activeView, selectedMonthIndex, selectedCategory, transferForm>>
    /\ UNCHANGED_SYNC
    /\ UNCHANGED_INSIGHTS

\* the two early returns of handleCopyPlan, never asking for the confirmation
CopyPlanRejected_NeverAsks(y, idx, confirmed) ==
    idx + 1 > LastMonthIndex

\* the two early returns of handleCopyPlan: past the last month, or an overwrite
\* that window.confirm declines
CopyPlanRejected(y, idx, confirmed) ==
    \/ idx + 1 > LastMonthIndex
    \/ Month(y, idx + 1).status # "NOT_STARTED" /\ ~confirmed

\* "Copy to next month" of the REPORT view, with the answer the user gives to
\* window.confirm when asked
handleCopyPlan(confirmed) ==
    /\ MainScreen /\ activeView = "REPORT"
    /\ LET nextMonthIndex == selectedMonthIndex + 1
           answer == IF confirmed THEN "OK" ELSE "Cancel"
       IN  IF CopyPlanRejected(yearData, selectedMonthIndex, confirmed)
           THEN /\ RanWith("handleCopyPlan", FALSE, answer)
                /\ UNCHANGED <<activeView, selectedMonthIndex>>
                /\ UNCHANGED_LEDGER
           ELSE /\ setYearData(ReplaceMonth(yearData, nextMonthIndex,
                    CopyPlanMonth(currentMonth, Month(yearData, nextMonthIndex),
                                  FreshIds(Len(currentMonth.categories)))))
                /\ selectedMonthIndex' = nextMonthIndex
                /\ activeView' = "DETAIL"
                /\ RanWith("handleCopyPlan", TRUE, answer)
    /\ UNCHANGED <<selectedCategory, modal, transferForm>>
    /\ UNCHANGED_SYNC
    /\ UNCHANGED_INSIGHTS

\* "<" and ">" of the header
handleYearChange(newYear) ==
    /\ MainScreen
    /\ newYear \in {yearData.year - 1, yearData.year + 1} \cap Years
    /\ setYearData(loadLocalYearData(newYear))
    /\ Ran("handleYearChange", TRUE)
    /\ UNCHANGED <<activeView, selectedMonthIndex, selectedCategory, modal, transferForm>>
    /\ UNCHANGED_SYNC
    /\ UNCHANGED_INSIGHTS

----
\* Authentication and the cloud record.

UNCHANGED_UI ==
    UNCHANGED <<activeView, selectedMonthIndex, selectedCategory, modal, transferForm>>

\* handleSignUp: the row of the name is upserted with the in-memory Year; with
\* gotSession the sign-up also signs in, and onAuthStateChange starts
\* handlePostLoginSync
handleSignUp(nameInput, gotSession) ==
    /\ ~session /\ budgets[nameInput] = NoYear
    /\ gotSession => pulls < MaxPulls
    /\ budgets' = [budgets EXCEPT ![nameInput] = yearData]
    /\ session' = gotSession
    /\ user' = IF gotSession THEN nameInput ELSE user
    /\ pulls' = IF gotSession THEN pulls + 1 ELSE pulls
    /\ yearData' = yearData
    /\ AfterRender(yearData, gotSession)
    /\ RanWith("handleSignUp", gotSession, nameInput)
    /\ UNCHANGED_UI
    /\ UNCHANGED_INSIGHTS

\* handleLogin: the name is looked up in the budgets table, then
\* onAuthStateChange sets the session and starts handlePostLoginSync
handleLogin(nameInput) ==
    /\ ~session /\ budgets[nameInput] # NoYear
    /\ pulls < MaxPulls
    /\ session' = TRUE
    /\ user' = nameInput
    /\ pulls' = pulls + 1
    /\ yearData' = yearData
    /\ AfterRender(yearData, TRUE)
    /\ RanWith("handleLogin", TRUE, nameInput)
    /\ UNCHANGED budgets
    /\ UNCHANGED_UI
    /\ UNCHANGED_INSIGHTS

\* handleSignOut without the effect's cleanup: the pending timeout outlives the
\* session
handleSignOut_KeepsTimer ==
    /\ MainScreen
    /\ session' = FALSE
    /\ pushTimer' = pushTimer
    /\ Ran("handleSignOut", TRUE)
    /\ UNCHANGED <<yearData, localStore, budgets, user, pulls>>
    /\ UNCHANGED_UI
    /\ UNCHANGED_INSIGHTS

\* handleSignOut: onAuthStateChange sets the session to null, the effect's
\* cleanup clears the pending timeout
handleSignOut ==
    /\ MainScreen
    /\ session' = FALSE
    /\ pushTimer' = NoYear
    /\ Ran("handleSignOut", TRUE)
    /\ UNCHANGED <<yearData, localStore, budgets, user, pulls>>
    /\ UNCHANGED_UI
    /\ UNCHANGED_INSIGHTS

\* syncWithSupabase(name, localData, true): the row's data, or localData when
\* there is no session, no row or an error
PullResult(outcome) == IF outcome = "cloud" THEN cloud ELSE MountYearData

\* the answer to a handlePostLoginSync call arrives: setYearData(cloudData),
\* or nothing when the call threw
handlePostLoginSync(outcome) ==
    /\ pulls > 0
    /\ pulls' = pulls - 1
    /\ outcome = "cloud" => (session /\ cloud # NoYear)
    /\ IF outcome = "throw"
       THEN UNCHANGED_LEDGER
       ELSE setYearData(PullResult(outcome))
    /\ RanWith("handlePostLoginSync", outcome # "throw", outcome)
    /\ UNCHANGED <<session, budgets, user>>
    /\ UNCHANGED_UI
    /\ UNCHANGED_INSIGHTS

\* the debounce timeout fires: performSync upserts the payload, or logs an error
performSync(ok) ==
    /\ pushTimer # NoYear
    /\ pushTimer' = NoYear
    /\ budgets' = IF ok THEN [budgets EXCEPT ![user] = pushTimer] ELSE budgets
    /\ Ran("performSync", ok)
    /\ UNCHANGED <<yearData, localStore, session, user, pulls>>
    /\ UNCHANGED_UI
    /\ UNCHANGED_INSIGHTS

\* the answer of getBudgetInsights arrives, the summary or a fallback text:
\* setInsights(result), setLoadingInsights(false)
fetchInsightsResolved(r) ==
    /\ r \in insightRequests
    /\ insightRequests' = insightRequests \ {r}
    /\ insights' = r
    /\ loadingInsights' = FALSE
    /\ fetches' = fetches
    /\ Ran("fetchInsights", TRUE)
    /\ UNCHANGED_LEDGER /\ UNCHANGED_SYNC
    /\ UNCHANGED_UI

----
\* The specification.

Init ==
    /\ yearData = DefaultYear(ThisYear)
    /\ activeView = "YEARLY"
    /\ selectedMonthIndex \in UsedMonths
    /\ selectedCategory = NoId
    /\ modal = "NONE"
    /\ transferForm = [fromCategoryId |-> NoId]
    /\ session = FALSE
    /\ localStore = [y \in Years |-> NoYear]
    /\ budgets = [u \in Users |-> NoYear]
    /\ user = NoUser
    /\ pulls = 0
    /\ pushTimer = NoYear
    /\ insights = NoInsight
    /\ loadingInsights = FALSE
    /\ insightRequests = {}
    /\ fetches = 0
    /\ lastOp = [op |-> "init", done |-> TRUE, field |-> "", id |-> NoId]
    /\ steps = 0

Next ==
    \/ \E idx \in UsedMonths : ClickMonth(idx)
    \/ NavYearly
    \/ NavPlanning
    \/ NavReport
    \/ CloseModal
    \/ \E k \in 1 .. MaxCategories, which \in {"HISTORY", "EXPENSE", "TRANSFER", "TOPUP"} :
          OpenCategoryModal(k, which)
    \/ \E which \in {"EDIT_TOTAL", "ADD_CATEGORY"} : OpenMonthModal(which)
    \/ \E id \in {NoId} \cup CategoryIds(currentMonth) : ChooseSource(id)
    \/ \E sc \in SetupLists, note \in NoteStrings : finalizeSetup(sc, note)
    \/ \E name \in NameStrings, amount \in AmountStrings : handleAddNewCategory(name, amount)
    \/ \E id \in CategoryIds(currentMonth), confirmed \in BOOLEAN : deleteCategory(id, confirmed)
    \/ \E id \in CategoryIds(currentMonth), direction \in {"UP", "DOWN"} : moveCategory(id, direction)
    \/ \E amount \in AmountStrings : addExpense(amount)
    \/ \E amount \in AmountStrings : handleTopUp(amount)
    \/ \E amount \in AmountStrings : handleTransfer(amount)
    \/ toggleStatus
    \/ \E value \in AmountStrings : saveEditTotal(value)
    \/ \E confirmed \in BOOLEAN : handleCopyPlan(confirmed)
    \/ \E newYear \in Years : handleYearChange(newYear)
    \/ \E gotSession \in BOOLEAN : handleSignUp(FirstUser, gotSession)
    \/ handleLogin(FirstUser)
    \/ handleSignOut
    \/ \E outcome \in {"cloud", "local", "throw"} : handlePostLoginSync(outcome)
    \/ \E ok \in BOOLEAN : performSync(ok)
    \/ \E r \in insightRequests : fetchInsightsResolved(r)

Spec == Init /\ [][Next]_vars

\* The reordering of a month of up to ReorderCategories categories: the DETAIL
\* view of a set-up month whose Year has been saved and pushed.
ReorderMonths ==
    {[DefaultMonth(ThisYear, LastMonthIndex) EXCEPT
          !.status = "ACTIVE",
          !.totalBudget = SumSeq([k \in 1 .. n |-> k]),
          !.note = "Salary",
          !.categories = [k \in 1 .. n |->
              [id |-> k, name |-> "Food", icon |-> "Food",
               allocatedAmount |-> k,
               transactions |-> IF k = 1 THEN first ELSE <<>>]]] :
        n \in 1 .. ReorderCategories,
        first \in {<<>>, <<Transaction("EXPENSE", 1)>>}}

InitReorder ==
    /\ \E m \in ReorderMonths :
          yearData = ReplaceMonth(DefaultYear(ThisYear), LastMonthIndex, m)
    /\ activeView = "DETAIL"
    /\ selectedMonthIndex = LastMonthIndex
    /\ selectedCategory = NoId
    /\ modal = "NONE"
    /\ transferForm = [fromCategoryId |-> NoId]
    /\ session = TRUE
    /\ localStore = [y \in Years |-> IF y = ThisYear THEN JSONstringify(yearData) ELSE NoYear]
    /\ budgets = [u \in Users |-> IF u = FirstUser THEN yearData ELSE NoYear]
    /\ user = FirstUser
    /\ pulls = 0
    /\ pushTimer = NoYear
    /\ insights = NoInsight
    /\ loadingInsights = FALSE
    /\ insightRequests = {}
    /\ fetches = 0
    /\ lastOp = [op |-> "init", done |-> TRUE, field |-> "", id |-> NoId]
    /\ steps = 0

NextReorder ==
    \E id \in CategoryIds(currentMonth), direction \in {"UP", "DOWN"} : moveCategory(id, direction)

SpecReorder == InitReorder /\ [][NextReorder]_vars

\* The local snapshot store by itself: the strings that may lie under the year
\* keys when the application starts, loadLocalYearData applied to them, and
\* Years stored over them by setYearData with a session.
SampleMonth(y) ==
    ExpenseMonth(SetupMonth(DefaultMonth(y, LastMonthIndex),
                            <<[name |-> " Food", amount |-> "1"]>>, " Salary", <<1>>),
                 1, "1")

\* Years the application holds for year y
SavedYears(y) ==
    {DefaultYear(y),
     ReplaceMonth(DefaultYear(y), LastMonthIndex, SampleMonth(y)),
     ReplaceMonth(DefaultYear(y), LastMonthIndex, ToggleStatusMonth(SampleMonth(y)))}

\* what may lie under the key of year y: nothing, a Year saved earlier, or a
\* string that is no saved Year: the empty string, cut-off text, '{"year":y}'
StoredStrings(y) ==
    {NoYear, EmptyString, Unparseable, StoredJson([year |-> y])}
        \cup {JSONstringify(data) : data \in SavedYears(y)}

InitStorage ==
    /\ localStore \in [Years -> UNION {StoredStrings(y) : y \in Years}]
    /\ \A y \in Years : localStore[y] \in StoredStrings(y)
    /\ yearData = loadLocalYearData(ThisYear)
    /\ activeView = "YEARLY"
    /\ selectedMonthIndex = LastMonthIndex
    /\ selectedCategory = NoId
    /\ modal = "NONE"
    /\ transferForm = [fromCategoryId |-> NoId]
    /\ session = TRUE
    /\ budgets = [u \in Users |-> NoYear]
    /\ user = FirstUser
    /\ pulls = 0
    /\ pushTimer = NoYear
    /\ insights = NoInsight
    /\ loadingInsights = FALSE
    /\ insightRequests = {}
    /\ fetches = 0
    /\ lastOp = [op |-> "init", done |-> TRUE, field |-> "", id |-> NoId]
    /\ steps = 0

\* loadLocalYearData(y), its result held as the in-memory Year
loadYear(y) ==
    /\ yearData' = loadLocalYearData(y)
    /\ RanOn("loadLocalYearData", TRUE, "", y)
    /\ UNCHANGED <<localStore, pushTimer>>
    /\ UNCHANGED_SYNC /\ UNCHANGED_UI /\ UNCHANGED_INSIGHTS

\* setYearData(data) with a session: the effect saves data under its year
storeYear(data) ==
    /\ setYearData(data)
    /\ RanOn("saveLocalYearData", TRUE, "", data.year)
    /\ UNCHANGED_SYNC /\ UNCHANGED_UI /\ UNCHANGED_INSIGHTS

NextStorage ==
    \/ \E y \in Years : loadYear(y)
    \/ \E y \in Years : \E data \in SavedYears(y) : storeYear(data)

SpecStorage == InitStorage /\ [][NextStorage]_vars

\* The expense and top-up forms by themselves, on a set-up month of up to
\* MaxCategories categories. The amount is a string of the form state: what a
\* number field delivers, or text that parseFloat cannot read, as a field
\* without the number type's sanitization delivers it.
UnparsedStrings == {"abc"}
SubmitStrings == AmountStrings \cup UnparsedStrings

SubmitMonths == {m \in ReorderMonths : Len(m.categories) <= MaxCategories}

InitSubmit ==
    /\ \E m \in SubmitMonths :
          yearData = ReplaceMonth(DefaultYear(ThisYear), LastMonthIndex, m)
    /\ activeView = "DETAIL"
    /\ selectedMonthIndex = LastMonthIndex
    /\ selectedCategory = NoId
    /\ modal = "NONE"
    /\ transferForm = [fromCategoryId |-> NoId]
    /\ session = TRUE
    /\ localStore = [y \in Years |-> IF y = ThisYear THEN JSONstringify(yearData) ELSE NoYear]
    /\ budgets = [u \in Users |-> IF u = FirstUser THEN yearData ELSE NoYear]
    /\ user = FirstUser
    /\ pulls = 0
    /\ pushTimer = NoYear
    /\ insights = NoInsight
    /\ loadingInsights = FALSE
    /\ insightRequests = {}
    /\ fetches = 0
    /\ lastOp = [op |-> "init", done |-> TRUE, field |-> "", id |-> NoId]
    /\ steps = 0

NextSubmit ==
    \/ \E k \in 1 .. MaxCategories, which \in {"EXPENSE", "TOPUP"} : OpenCategoryModal(k, which)
    \/ \E amount \in SubmitStrings : addExpense(amount)
    \/ \E amount \in SubmitStrings : handleTopUp(amount)

SpecSubmit == InitSubmit /\ [][NextSubmit]_vars

\* One device used by several people in turn: sign-up, login and sign-out under
\* the names of Users, the setup of a month, the pull and the push.
NextUsers ==
    \/ \E idx \in UsedMonths : ClickMonth(idx)
    \/ \E sc \in SetupLists, note \in NoteStrings : finalizeSetup(sc, note)
    \/ \E nameInput \in Users, gotSession \in BOOLEAN : handleSignUp(nameInput, gotSession)
    \/ \E nameInput \in Users : handleLogin(nameInput)
    \/ handleSignOut
    \/ \E outcome \in {"cloud", "local", "throw"} : handlePostLoginSync(outcome)
    \/ \E ok \in BOOLEAN : performSync(ok)

SpecUsers == Init /\ [][NextUsers]_vars

\* The background push under the scheduling of the browser: a timeout that has
\* been set and is not cleared fires.
SpecPush == Spec /\ WF_vars(\E ok \in BOOLEAN : performSync(ok))

----
\* Properties.

\* the category with the id in month m, as the claims speak of it
AllocatedOf(m, id) == IF HasCategory(m, id) THEN FindCategory(m, id).allocatedAmount ELSE 0
TransactionsOf(m, id) == IF HasCategory(m, id) THEN FindCategory(m, id).transactions ELSE <<>>

\* this step is handler op getting past its guards
Performed(op) == lastOp'.op = op /\ lastOp'.done /\ steps' = steps + 1
\* this step is handler op, performed or not
Invoked(op) == lastOp'.op = op /\ steps' = steps + 1

\* C1: a performed transfer leaves the sum of the source's and the selected
\* category's allocatedAmount, and the month's totalBudget, as they were.
C1_TransferZeroSum ==
    [][Performed("handleTransfer") =>
        LET from == transferForm.fromCategoryId
            to == selectedCategory
        IN  /\ HasCategory(currentMonth, to) /\ HasCategory(currentMonth', to)
            /\ Plus(AllocatedOf(currentMonth', from), AllocatedOf(currentMonth', to))
                 = Plus(AllocatedOf(currentMonth, from), AllocatedOf(currentMonth, to))
            /\ currentMonth'.totalBudget = currentMonth.totalBudget]_vars

\* C2: a performed transfer appends, in the one replacement of the month, a
\* TRANSFER_OUT at the end of the source's list and a TRANSFER_IN of the same
\* amount at the end of the selected category's list.
C2_TransferWritesOutAndIn ==
    [][Performed("handleTransfer") =>
        LET from == transferForm.fromCategoryId
            to == selectedCategory
            amount == parseFloat(lastOp'.field)
            outs == TransactionsOf(currentMonth', from)
            ins == TransactionsOf(currentMonth', to)
        IN  /\ HasCategory(currentMonth', from) /\ HasCategory(currentMonth', to)
            /\ Len(outs) = Len(TransactionsOf(currentMonth, from)) + 1
            /\ outs[Len(outs)] = Transaction("TRANSFER_OUT", amount)
            /\ Len(ins) = Len(TransactionsOf(currentMonth, to)) + 1
            /\ ins[Len(ins)] = Transaction("TRANSFER_IN", amount)]_vars

\* C3: handleTransfer leaves the month as it was when the source is the selected
\* category, or when either of the two is not in the current month.
C3_TransferNeedsTwoCategories ==
    [][(/\ Invoked("handleTransfer")
        /\ \/ transferForm.fromCategoryId = selectedCategory
           \/ ~HasCategory(currentMonth, transferForm.fromCategoryId)
           \/ ~HasCategory(currentMonth, selectedCategory))
        => currentMonth' = currentMonth]_vars

\* every category of m other than the one with the id is in m2 as it is in m
OthersUnchanged(m, m2, id) ==
    /\ Len(m2.categories) = Len(m.categories)
    /\ \A k \in 1 .. Len(m.categories) :
          m.categories[k].id # id => m2.categories[k] = m.categories[k]

\* C4: a performed top-up of amount a adds a to the selected category's
\* allocatedAmount and to the month's totalBudget, appends one TRANSFER_IN of
\* amount a to that category and leaves the other categories alone.
C4_TopUpAddsToSelected ==
    [][Performed("handleTopUp") =>
        LET a == parseFloat(lastOp'.field)
            m == currentMonth
            m2 == currentMonth'
        IN  /\ HasCategory(m, selectedCategory) /\ HasCategory(m2, selectedCategory)
            /\ AllocatedOf(m2, selectedCategory) = Plus(AllocatedOf(m, selectedCategory), a)
            /\ m2.totalBudget = Plus(m.totalBudget, a)
            /\ TransactionsOf(m2, selectedCategory)
                 = Append(TransactionsOf(m, selectedCategory), Transaction("TRANSFER_IN", a))
            /\ OthersUnchanged(m, m2, selectedCategory)]_vars

\* the handlers behind the actions offered on a set-up month
MonthActions ==
    {"finalizeSetup", "handleTopUp", "handleAddNewCategory", "deleteCategory",
     "addExpense", "handleTransfer", "moveCategory", "toggleStatus", "saveEditTotal"}

TotalBudgetsUnchanged ==
    /\ yearData'.year = yearData.year
    /\ \A i \in MonthIndexes : Month(yearData', i).totalBudget = Month(yearData, i).totalBudget

\* C5 as stated: of the actions offered on a set-up month, only setup, top-up,
\* category addition and category deletion change a totalBudget.
C5_OnlyFourActionsChangeTotal ==
    [][(/\ steps' = steps + 1
        /\ lastOp'.op \in MonthActions \ {"finalizeSetup", "handleTopUp",
                                            "handleAddNewCategory", "deleteCategory"}
        /\ currentMonth.status # "NOT_STARTED")
        => TotalBudgetsUnchanged]_vars

\* C5 as amended: record expense, transfer, reorder and finalize/unlock leave
\* the totalBudget of every month as it was.
C5_FrameOfTotalBudget ==
    [][(/\ steps' = steps + 1
        /\ lastOp'.op \in {"addExpense", "handleTransfer", "moveCategory", "toggleStatus"})
        => TotalBudgetsUnchanged]_vars

\* a transfer between two categories has been performed on a month with a budget
C5_Witness ==
    /\ lastOp.op = "handleTransfer" /\ lastOp.done /\ lastOp.field = "1"
    /\ currentMonth.totalBudget = 2
    /\ \E k \in 1 .. Len(currentMonth.categories) :
          currentMonth.categories[k].allocatedAmount = 2

\* C6: after a performed setup the month's totalBudget is the sum of the
\* allocatedAmount of the categories it created, the valid entries.
C6_SetupTotalIsSumOfValidEntries ==
    [][Performed("finalizeSetup") =>
        currentMonth'.totalBudget = SumSeq(Allocations(currentMonth'))]_vars

\* C7: while the Year shown stays the same one, no user action takes a month from
\* NOT_STARTED to COMPLETED or back to NOT_STARTED.
C7_StatusTransitions ==
    [][(/\ steps' = steps + 1
        /\ lastOp'.op \notin {"handleYearChange", "handlePostLoginSync"})
        => \A i \in MonthIndexes :
              /\ Month(yearData, i).status = "NOT_STARTED"
                    => Month(yearData', i).status # "COMPLETED"
              /\ Month(yearData, i).status # "NOT_STARTED"
                    => Month(yearData', i).status # "NOT_STARTED"]_vars

\* C8: a performed expense of amount a appends one EXPENSE of amount a to the
\* selected category, whose spent figure grows by a, and changes nothing else of
\* the month.
C8_ExpenseAppendsToSelected ==
    [][Performed("addExpense") =>
        LET a == parseFloat(lastOp'.field)
            m == currentMonth
            m2 == currentMonth'
        IN  /\ HasCategory(m, selectedCategory) /\ HasCategory(m2, selectedCategory)
            /\ TransactionsOf(m2, selectedCategory)
                 = Append(TransactionsOf(m, selectedCategory), Transaction("EXPENSE", a))
            /\ getCategorySpent(FindCategory(m2, selectedCategory))
                 = Plus(getCategorySpent(FindCategory(m, selectedCategory)), a)
            /\ Allocations(m2) = Allocations(m)
            /\ m2.totalBudget = m.totalBudget /\ m2.status = m.status
            /\ OthersUnchanged(m, m2, selectedCategory)]_vars

\* C9: every transaction of the in-memory Year has an amount above 0.
C9_AmountsPositive ==
    \A i \in DOMAIN yearData.months :
        \A k \in 1 .. Len(yearData.months[i].categories) :
            \A t \in 1 .. Len(yearData.months[i].categories[k].transactions) :
                Greater(yearData.months[i].categories[k].transactions[t].amount, 0)

\* C10: handleTransfer leaves the month as it was when its amount field parses to
\* NaN or to a value <= 0, and a performed setup creates only categories whose
\* amount is above 0.
C10_PositiveAmountRequired ==
    [][/\ (Invoked("handleTransfer") /\ ~Greater(parseFloat(lastOp'.field), 0))
            => currentMonth' = currentMonth
       /\ Performed("finalizeSetup")
            => \A k \in 1 .. Len(currentMonth'.categories) :
                  Greater(currentMonth'.categories[k].allocatedAmount, 0)]_vars

\* sequence s without its entry k
WithoutEntry(s, k) == [j \in 1 .. (Len(s) - 1) |-> IF j < k THEN s[j] ELSE s[j + 1]]

IsPrefix(s, t) == Len(s) <= Len(t) /\ \A k \in 1 .. Len(s) : t[k] = s[k]

\* C12: across every step that keeps the Year's year, other than a confirmed
\* delete of the category itself, each category of each month stays in its
\* month, and its earlier transaction list is a prefix of its list afterwards.
C12_NothingRemovedImplicitly ==
    [][(steps' = steps + 1 /\ yearData'.year = yearData.year) =>
        \A i \in MonthIndexes :
            \A k \in 1 .. Len(Month(yearData, i).categories) :
                LET c == Month(yearData, i).categories[k]
                IN  \/ /\ Performed("deleteCategory")
                       /\ i = selectedMonthIndex
                       /\ c.id = lastOp'.id
                    \/ /\ HasCategory(Month(yearData', i), c.id)
                       /\ IsPrefix(c.transactions,
                                   TransactionsOf(Month(yearData', i), c.id))]_vars

\* C13: a performed copy-plan from month i < 11 leaves month i+1 ACTIVE with
\* month i's totalBudget and note and with one category per category of month
\* i, in order, of the same name, icon and allocatedAmount, without
\* transactions and under an id the Year did not hold; the other months are
\* as they were and month i+1 is the selected one.
C13_CopyPlanResult ==
    [][Performed("handleCopyPlan") =>
        LET i == selectedMonthIndex
            src == Month(yearData, i)
            dst == Month(yearData', i + 1)
        IN  /\ i < LastMonthIndex
            /\ yearData'.year = yearData.year
            /\ dst.status = "ACTIVE"
            /\ dst.totalBudget = src.totalBudget
            /\ dst.note = src.note
            /\ dst.monthIndex = i + 1 /\ dst.year = yearData.year
            /\ Len(dst.categories) = Len(src.categories)
            /\ \A k \in 1 .. Len(src.categories) :
                  /\ dst.categories[k].name = src.categories[k].name
                  /\ dst.categories[k].icon = src.categories[k].icon
                  /\ dst.categories[k].allocatedAmount = src.categories[k].allocatedAmount
                  /\ dst.categories[k].transactions = <<>>
                  /\ dst.categories[k].id \notin YearIds(yearData)
                  /\ \A j \in 1 .. (k - 1) : dst.categories[j].id # dst.categories[k].id
            /\ \A j \in MonthIndexes \ {i + 1} : Month(yearData', j) = Month(yearData, j)
            /\ selectedMonthIndex' = i + 1]_vars

\* a month of two categories, one with a transaction, has been copied
C13_Witness ==
    /\ lastOp.op = "handleCopyPlan" /\ lastOp.done
    /\ Len(currentMonth.categories) = 2
    /\ \E k \in 1 .. 2 :
          Month(yearData, selectedMonthIndex - 1).categories[k].transactions # <<>>

\* C14: copy-plan from month 11, and copy-plan onto a month that is not
\* NOT_STARTED with the confirmation declined, leave the Year, the selected
\* month and the view as they were; onto a NOT_STARTED month it is performed
\* whatever the answer would be.
C14_CopyPlanRejection ==
    [][Invoked("handleCopyPlan") =>
        LET i == selectedMonthIndex
        IN  IF i = LastMonthIndex
               \/ (Month(yearData, i + 1).status # "NOT_STARTED" /\ lastOp'.field = "Cancel")
            THEN /\ ~lastOp'.done
                 /\ yearData' = yearData
                 /\ selectedMonthIndex' = selectedMonthIndex
                 /\ activeView' = activeView
            ELSE lastOp'.done]_vars

\* an overwrite of a set-up next month has been declined
C14_Witness ==
    /\ lastOp.op = "handleCopyPlan" /\ ~lastOp.done /\ lastOp.field = "Cancel"
    /\ selectedMonthIndex < LastMonthIndex
    /\ Month(yearData, selectedMonthIndex + 1).status = "ACTIVE"
    /\ activeView = "REPORT"

\* sequence s with its entries j and k exchanged
Exchanged(s, j, k) == [s EXCEPT ![j] = s[k], ![k] = s[j]]

\* C15: moveCategory of the entry at position i UP (i not the first) exchanges
\* it with the entry before it, DOWN (i not the last) with the entry after it,
\* and keeps every other position, the set of categories, totalBudget and the
\* rest of the Year; at a boundary, or for an id the month does not hold, the
\* Year is as it was.
C15_MoveIsAdjacentExchange ==
    [][Invoked("moveCategory") =>
        LET m == currentMonth
            m2 == currentMonth'
            n == Len(m.categories)
            i == FindIndex(m, lastOp'.id)
            moved == [m EXCEPT !.categories =
                        IF lastOp'.field = "UP"
                        THEN Exchanged(m.categories, i - 1, i)
                        ELSE Exchanged(m.categories, i, i + 1)]
        IN  IF i >= 1 /\ (IF lastOp'.field = "UP" THEN i > 1 ELSE i < n)
            THEN /\ lastOp'.done
                 /\ m2 = moved
                 /\ m2.totalBudget = m.totalBudget
                 /\ Len(m2.categories) = n
                 /\ {m2.categories[k] : k \in 1 .. n} = {m.categories[k] : k \in 1 .. n}
                 /\ \A j \in MonthIndexes \ {selectedMonthIndex} :
                        Month(yearData', j) = Month(yearData, j)
            ELSE /\ ~lastOp'.done
                 /\ yearData' = yearData]_vars

\* the second of four categories has been moved down, between the third and
\* the fourth
C15_Witness ==
    /\ lastOp.op = "moveCategory" /\ lastOp.done /\ lastOp.field = "DOWN"
    /\ Len(currentMonth.categories) = ReorderCategories
    /\ lastOp.id = 2
    /\ [k \in 1 .. 4 |-> currentMonth.categories[k].id] = <<1, 3, 2, 4>>
    /\ currentMonth.categories[1].transactions # <<>>

\* the amounts of the EXPENSE transactions of a list, added up one by one
RECURSIVE ExpenseTotal(_)
ExpenseTotal(txs) ==
    IF txs = <<>> THEN 0
    ELSE Plus(IF Head(txs).type = "EXPENSE" THEN Head(txs).amount ELSE 0,
              ExpenseTotal(Tail(txs)))

RECURSIVE SpentOfFirst(_, _)
SpentOfFirst(cs, n) ==
    IF n = 0 THEN 0 ELSE Plus(SpentOfFirst(cs, n - 1), getCategorySpent(cs[n]))

\* the figures of month m are what the claim says they are
SpentFigures(m) ==
    /\ getTotalSpent(m) = SpentOfFirst(m.categories, Len(m.categories))
    /\ \A k \in 1 .. Len(m.categories) :
          /\ getCategorySpent(m.categories[k]) = ExpenseTotal(m.categories[k].transactions)
          /\ remaining(m.categories[k])
                = Minus(m.categories[k].allocatedAmount,
                        ExpenseTotal(m.categories[k].transactions))

\* C16: in every month getTotalSpent is the sum of getCategorySpent over the
\* categories, getCategorySpent is the sum of the EXPENSE amounts alone and
\* remaining is allocatedAmount minus that; a performed top-up or transfer
\* leaves the spent figure of every category as it was.
C16_SpentCountsExpensesOnly ==
    /\ [](\A i \in MonthIndexes : SpentFigures(Month(yearData, i)))
    /\ [][(Performed("handleTopUp") \/ Performed("handleTransfer")) =>
            /\ Len(currentMonth'.categories) = Len(currentMonth.categories)
            /\ \A k \in 1 .. Len(currentMonth.categories) :
                  getCategorySpent(currentMonth'.categories[k])
                    = getCategorySpent(currentMonth.categories[k])
            /\ getTotalSpent(currentMonth') = getTotalSpent(currentMonth)]_vars

\* a category with an expense has been topped up
C16_Witness ==
    /\ lastOp.op = "handleTopUp" /\ lastOp.done /\ lastOp.field = "1"
    /\ \E k \in 1 .. Len(currentMonth.categories) :
          LET txs == currentMonth.categories[k].transactions
          IN  /\ Len(txs) = 2
              /\ txs[1] = Transaction("EXPENSE", 1)
              /\ txs[2] = Transaction("TRANSFER_IN", 1)
              /\ getCategorySpent(currentMonth.categories[k]) = 1
    /\ getTotalSpent(currentMonth) = 1

\* C17: when a pull errors, throws or finds no usable record, and when a push
\* errors or throws, the in-memory Year after the failure has been handled is
\* the in-memory Year before it.
C17_FailedCloudOpKeepsYear ==
    [][(\/ Invoked("handlePostLoginSync") /\ lastOp'.field \in {"local", "throw"}
        \/ Invoked("performSync") /\ ~lastOp'.done)
        => yearData' = yearData]_vars

\* C18: a pending debounced push exists only with a session and holds the
\* in-memory Year, every change of the Year with a session leaves the push of
\* the new Year pending, and a push that fires sends the Year of that moment.
C18_PendingPushIsCurrent ==
    /\ [](pushTimer # NoYear => session /\ pushTimer = yearData)
    /\ [][/\ (yearData' # yearData /\ session') => pushTimer' = yearData'
          /\ Invoked("performSync") =>
                /\ pushTimer = yearData
                /\ pushTimer' = NoYear
                /\ (lastOp'.done => cloud' = yearData)]_vars

\* a push has fired after two changes of the Year, a setup and an expense, and
\* the row holds the Year with both
C18_Witness ==
    /\ lastOp.op = "performSync" /\ lastOp.done
    /\ session /\ cloud = yearData
    /\ \E k \in 1 .. Len(currentMonth.categories) :
          currentMonth.categories[k].transactions # <<>>

\* C19: an insight answer that arrives while another view is shown leaves the
\* stored text as it was, and the text shown on the report screen comes from
\* the latest request, made for the month shown.
C19_StaleInsightDiscarded ==
    /\ []((activeView = "REPORT" /\ ~loadingInsights /\ insights # NoInsight) =>
            /\ insights.n = fetches
            /\ insights.year = yearData.year
            /\ insights.monthIndex = selectedMonthIndex)
    /\ [][(Invoked("fetchInsights") /\ activeView # "REPORT") => insights' = insights]_vars

\* the default Year of year y: 12 months, each NOT_STARTED, without budget and
\* without categories
IsDefaultYear(v, y) ==
    /\ v = DefaultYear(y)
    /\ \A i \in 0 .. 11 :
          /\ Month(v, i).monthIndex = i /\ Month(v, i).year = y
          /\ Month(v, i).status = "NOT_STARTED"
          /\ Month(v, i).totalBudget = 0
          /\ Month(v, i).categories = <<>>

\* C20: loadLocalYearData(y) gives the default Year of y when nothing lies under
\* the key or what lies there is not a saved Year, and the saved Year
\* otherwise; after a Year is stored, loading its year gives that Year and
\* loading another year gives what it gave before.
C20_LoadGivesSavedOrDefault ==
    [][/\ Invoked("loadLocalYearData") =>
            LET y == lastOp'.id
                stored == localStore[y]
            IN  IF \E data \in SavedYears(y) : stored = JSONstringify(data)
                THEN stored = JSONstringify(yearData')
                ELSE IsDefaultYear(yearData', y)
       /\ Invoked("saveLocalYearData") =>
            /\ ParsedOrDefault(localStore'[yearData'.year], yearData'.year) = yearData'
            /\ \A y \in Years \ {yearData'.year} :
                  loadLocalYearData(y)' = loadLocalYearData(y)]_vars

\* C21: while there is no session no push is pending and none fires, the
\* answer to a pull hands back the Year the call was given and leaves the row
\* as it was, and signing out cancels the pending push without writing the row.
C21_NoCloudOpWithoutSession ==
    /\ [](~session => pushTimer = NoYear)
    /\ [][/\ Invoked("performSync") => session
          /\ (Invoked("handlePostLoginSync") /\ ~session) =>
                /\ lastOp'.field # "cloud"
                /\ cloud' = cloud
                /\ (lastOp'.done => yearData' = MountYearData)
                /\ localStore' = localStore /\ pushTimer' = NoYear
          /\ Invoked("handleSignOut") =>
                /\ pushTimer' = NoYear
                /\ cloud' = cloud /\ yearData' = yearData]_vars

\* a pull is answered after the sign-out: the row holds a set-up month, the
\* last change saved locally was never pushed, and the Year is the given one
C21_Witness ==
    /\ lastOp.op = "handlePostLoginSync" /\ lastOp.field = "local"
    /\ ~session /\ pushTimer = NoYear
    /\ YearIds(cloud) # {}
    /\ localStore[ThisYear] # NoYear
    /\ localStore[ThisYear] # JSONstringify(cloud)
    /\ yearData = MountYearData

\* the spent figure of the category with the id in month m
SpentOf(m, id) == IF HasCategory(m, id) THEN getCategorySpent(FindCategory(m, id)) ELSE 0

TotalIsSumOfAllocations(y) ==
    \A i \in MonthIndexes :
        Month(y, i).status # "NOT_STARTED" =>
            Month(y, i).totalBudget = SumSeq(Allocations(Month(y, i)))

\* the same of every month of Year y: a month that is not set up has no
\* categories and the totalBudget 0
Balanced(y) ==
    \A i \in MonthIndexes : Month(y, i).totalBudget = SumSeq(Allocations(Month(y, i)))

\* the handlers of setup, add category, delete category, top-up, transfer,
\* record expense, reorder, finalize/unlock and copy-plan
LedgerActions ==
    {"finalizeSetup", "handleAddNewCategory", "deleteCategory", "handleTopUp",
     "handleTransfer", "addExpense", "moveCategory", "toggleStatus", "handleCopyPlan"}

\* C23: in the default Year every month's totalBudget is the sum of its
\* categories' allocatedAmount, and setup, add category, delete category,
\* top-up, transfer, record expense, reorder, finalize/unlock and copy-plan,
\* run on a Year of which that is true, each leave a Year in which it is true
\* of every month other than the NOT_STARTED ones.
C23_TotalIsSumOfAllocations ==
    /\ [](steps = 0 => Balanced(yearData))
    /\ [][(/\ steps' = steps + 1
           /\ lastOp'.op \in LedgerActions
           /\ Balanced(yearData))
           => TotalIsSumOfAllocations(yearData')]_vars

\* C24: a step of setup, add, delete, reorder, expense, top-up, transfer, edit
\* total or finalize/unlock leaves the Year's year and every month but the one
\* at selectedMonthIndex as they were, and the month at selectedMonthIndex
\* keeps its monthIndex and its year.
C24_OnlySelectedMonthReplaced ==
    [][(steps' = steps + 1 /\ lastOp'.op \in MonthActions) =>
        /\ yearData'.year = yearData.year
        /\ selectedMonthIndex' = selectedMonthIndex
        /\ \A i \in MonthIndexes \ {selectedMonthIndex} :
              Month(yearData', i) = Month(yearData, i)
        /\ currentMonth'.monthIndex = currentMonth.monthIndex
        /\ currentMonth'.year = currentMonth.year]_vars

\* the last month has been finalized while the month before it holds its plan
C24_Witness ==
    /\ lastOp.op = "toggleStatus" /\ lastOp.done
    /\ selectedMonthIndex = LastMonthIndex
    /\ currentMonth.status = "COMPLETED"
    /\ Month(yearData, LastMonthIndex - 1).status = "ACTIVE"
    /\ Month(yearData, LastMonthIndex - 1).categories # <<>>

\* C25: a person who signs up has had no session and has no row; the Year
\* upserted into the row at sign-up, and the Year shown when the sign-up also
\* signs in, hold no category, whoever used the device before; and the rows
\* of two names never hold the same set-up month.
C25_NoDataAcrossSessions ==
    /\ [](\A u, v \in Users :
            (u # v /\ budgets[u] # NoYear /\ budgets[v] # NoYear) =>
                \A i \in DOMAIN budgets[u].months \cap DOMAIN budgets[v].months :
                    budgets[u].months[i] # budgets[v].months[i])
    /\ [][Invoked("handleSignUp") =>
            /\ YearIds(budgets'[lastOp'.field]) = {}
            /\ (session' => YearIds(yearData') = {})]_vars

\* the handlers that change the ledger on the user's action
LocalMutations == MonthActions \cup {"handleCopyPlan"}

\* C26: after a performed local mutation under a session a push is attempted,
\* unless the session ends or the run is cut off first; a push that is
\* attempted carries the in-memory Year of that moment, which lies in the local
\* store under its year's key, and leaves no push pending; and a push becomes
\* pending only through a handler that sets the Year or the session.
C26_PushFollowsMutation ==
    /\ (session /\ lastOp.done /\ lastOp.op \in LocalMutations)
          ~> (lastOp.op = "performSync" \/ ~session \/ steps = MaxSteps)
    /\ [][/\ Invoked("performSync") =>
                /\ pushTimer = yearData
                /\ localStore[yearData.year] = JSONstringify(yearData)
                /\ pushTimer' = NoYear
          /\ (pushTimer = NoYear /\ pushTimer' # NoYear) =>
                /\ lastOp'.done
                /\ lastOp'.op \notin {"nav", "fetchInsights", "performSync"}]_vars

\* the push of a set-up month has been attempted and has failed: the Year is
\* in the local store, not in the row, and no push is pending
C26_Witness ==
    /\ lastOp.op = "performSync" /\ ~lastOp.done
    /\ session /\ pushTimer = NoYear
    /\ YearIds(yearData) # {}
    /\ localStore[yearData.year] = JSONstringify(yearData)
    /\ cloud # yearData

====
